---- MODULE Spec2Model ----
(***************************************************************************)
(* Model of the inventory tracking backend: the PostgreSQL tables          *)
(* store_inventory (aggregate) and stock_movement (ledger), the pg         *)
(* connection pool behind db.query, the InventoryController handlers       *)
(* createStockMovement, updateInventory and getStockMovements, and the    *)
(* deleteStore and deleteProduct handlers, one step per awaited query;     *)
(* and the legacy StockMovementController.createMovement on its SQLite     *)
(* connection.                                                             *)
(*                                                                         *)
(* Every db.query(...) is pool.query(...): the pool hands the query to the *)
(* most recently released idle client, opens a new client when none is     *)
(* idle and fewer than `max` exist, and otherwise queues the query until a *)
(* client is released.  BEGIN / COMMIT / ROLLBACK are ordinary queries, so *)
(* a transaction belongs to the client a BEGIN happened to run on.         *)
(*                                                                         *)
(* Encoding of request bodies: a numeric field that is absent is 0 (the    *)
(* handler tests them with `!x`, which treats undefined and 0 alike); an   *)
(* absent type is ""; an absent referenceId is NullRef.  Quantities are    *)
(* JSON integers.                                                          *)
(***************************************************************************)
EXTENDS Integers, Sequences, FiniteSets, TLC

\* ---------------------------------------------------------------- bounds
NumReq == 3            \* request slots (each slot serves one HTTP request)
PoolMax == 2           \* pool size; the source sets max: 20, scaled down so
                       \* that more requests than clients can be in flight
MaxQty == 2            \* largest quantity a request asks for
MaxFailures == 1       \* injected storage failures per behaviour
NumWorkers == 2        \* slots that serve arbitrary requests when requests
                       \* overlap; the other slots serve short requests only

MaxTime == 2           \* last reading of the server clock
defaultLimit == 20     \* getStockMovements: limit = 20

Reqs == 1..NumReq
Workers == 1..NumWorkers
Conns == 1..PoolMax

\* ------------------------------------------------------------ catalogue
Stores == {1, 2}       \* rows of table store (at start)
Products == {1}        \* rows of table product_catalog (at start)
StoreIds == {1, 2, 3}  \* ids a request may name (3 does not exist)
ProductIds == {1, 2}   \* ids a request may name (2 does not exist)
Pairs == Stores \X Products

NullRef == "NULL"
validTypes == {"STOCK_IN", "SALE", "REMOVAL", "TRANSFER"}
outgoingTypes == {"SALE", "REMOVAL", "TRANSFER"}

IdStrings == <<"1", "2", "3", "4", "5", "6", "7", "8", "9", "10", "11", "12">>
\* movementResult.rows[0].id.toString()
IdToString(i) == IF i \in DOMAIN IdStrings THEN IdStrings[i] ELSE "big"

VARIABLES
    stores,     \* committed rows of table store (their ids)
    products,   \* committed rows of table product_catalog (their ids)
    inv,        \* committed store_inventory: [pair -> quantity], domain = rows
    ledger,     \* committed stock_movement rows (a set of records)
    nextMovId,  \* stock_movement id sequence (not transactional)
    tx,         \* per client: open transaction and its uncommitted writes
    alive,      \* clients the pool currently holds
    idle,       \* idle clients, most recently released last
    pending,    \* queries waiting for a client, oldest first
    req,        \* per request slot: handler position and locals
    failures,   \* injected storage failures so far
    rows,       \* committed store_inventory rows per (store, product) pair
    now,        \* the database server's clock
    created,    \* stock_movement.created_at, by record id
    sqlite      \* the legacy SQLite database and its one connection

vars == <<stores, products, inv, ledger, nextMovId, tx, alive, idle, pending, req, failures,
          rows, now, created, sqlite>>

\* ------------------------------------------------------ function helpers
Put(f, k, v) == [x \in DOMAIN f \cup {k} |-> IF x = k THEN v ELSE f[x]]
Merge(f, g) == [x \in DOMAIN f \cup DOMAIN g |-> IF x \in DOMAIN g THEN g[x] ELSE f[x]]
EmptyFn == [x \in {} |-> 0]

\* ins: pairs whose row the transaction inserted; ts: its start time
EmptyTx == [open |-> FALSE, winv |-> EmptyFn, wled |-> {}, dstores |-> {}, dproducts |-> {},
            ins |-> {}, ts |-> 0]

NoBody == [storeId |-> 0, productId |-> 0, quantity |-> 0, type |-> "",
           referenceId |-> NullRef, destinationStoreId |-> 0, qkind |-> "num"]
NoResp == [status |-> 0, error |-> "", available |-> 0, requested |-> 0, new_quantity |-> 0,
           movements |-> <<>>, total |-> 0, totalPages |-> 0]
\* req.query of getStockMovements; an absent parameter is 0 / ""
NoQuery == [storeId |-> 0, productId |-> 0, type |-> "", startDate |-> 0, endDate |-> 0,
            page |-> 0, limit |-> 0]
NewReq == [st |-> "new", op |-> "", stmt |-> "", conn |-> 0, body |-> NoBody,
           cur |-> 0, movId |-> 0, destMovId |-> 0, newSrc |-> 0, destQty |-> 0,
           resp |-> NoResp,
           pre |-> [inv |-> EmptyFn, ledger |-> {}], with |-> {},
           hit |-> FALSE, query |-> NoQuery, seen |-> {}]

Resp(status, error) == [NoResp EXCEPT !.status = status, !.error = error]

\* ----------------------------------------------------------- PostgreSQL
\* What a statement running on client c sees (READ COMMITTED): committed
\* rows plus the uncommitted writes of c's own open transaction.
VisInv(c) == Merge(inv, tx[c].winv)
VisLedger(c) == ledger \cup tx[c].wled
VisStores(c) == stores \ tx[c].dstores
VisProducts(c) == products \ tx[c].dproducts

\* Clients other than c whose open transaction holds an uncommitted write
\* (row lock or uncommitted unique key) on store_inventory row p.
Holders(c, p) == {d \in Conns \ {c} : p \in DOMAIN tx[d].winv}

SrcPair(q) == <<q.body.storeId, q.body.productId>>
\* mutant: the destination leg is applied to the source store
DstPairIsSource(q) == <<q.body.storeId, q.body.productId>>

DstPair(q) == <<q.body.destinationStoreId, q.body.productId>>

\* The store_inventory row a statement writes, or <<>> when it writes none.
WritePair(q) ==
    CASE q.stmt \in {"insSrcInv", "updSrc", "uUpd"} -> SrcPair(q)
      [] q.stmt \in {"insDestInv", "updDest"} -> DstPair(q)
      [] OTHER -> <<>>

\* Waits on store_inventory rows: an UPDATE waits for the transaction that
\* locked the row, an INSERT for the one that inserted the same key.
RowWaits(c, q) ==
    LET p == WritePair(q) IN
    IF p = <<>> THEN {}
    ELSE IF q.stmt \in {"insSrcInv", "insDestInv"}
         THEN IF p \in DOMAIN VisInv(c) THEN {} ELSE Holders(c, p)
         ELSE IF p \in DOMAIN tx[c].winv \/ p \notin DOMAIN inv THEN {} ELSE Holders(c, p)

\* The (store, product) a statement inserts a referencing row for, or <<>>.
ChildPair(q) ==
    CASE q.stmt \in {"insSrcInv", "insMov", "uIns"} -> SrcPair(q)
      [] q.stmt \in {"insDestInv", "insDestMov"} -> DstPair(q)
      [] OTHER -> <<>>

\* FOREIGN KEY: an insert of a referencing row waits for a transaction that
\* has deleted the referenced store or product and not yet ended.
ParentWaits(c, q) ==
    LET p == ChildPair(q) IN
    IF p = <<>> THEN {}
    ELSE {d \in Conns \ {c} : p[1] \in tx[d].dstores \/ p[2] \in tx[d].dproducts}

\* rows referencing a store / product that client d inserted and has not committed
NewChildOfStore(d, s) ==
    \/ \E p \in DOMAIN tx[d].winv : p[1] = s /\ p \notin DOMAIN inv
    \/ \E m \in tx[d].wled : m.store_id = s
NewChildOfProduct(d, p) ==
    \/ \E k \in DOMAIN tx[d].winv : k[2] = p /\ k \notin DOMAIN inv
    \/ \E m \in tx[d].wled : m.product_id = p

\* DELETE of a store / product waits for transactions that inserted rows
\* referencing it (they hold a key lock on it) or that deleted it themselves.
DeleteWaits(c, q) ==
    CASE q.stmt = "dsDel" /\ q.body.storeId \in stores ->
            {d \in Conns \ {c} : q.body.storeId \in tx[d].dstores
                                  \/ NewChildOfStore(d, q.body.storeId)}
      [] q.stmt = "dpDel" /\ q.body.productId \in products ->
            {d \in Conns \ {c} : q.body.productId \in tx[d].dproducts
                                  \/ NewChildOfProduct(d, q.body.productId)}
      [] OTHER -> {}

\* The clients a query in flight on c waits for (lock wait).
WaitsFor(c, q) == RowWaits(c, q) \cup ParentWaits(c, q) \cup DeleteWaits(c, q)

Blocked(r) == req[r].st = "run" /\ WaitsFor(req[r].conn, req[r]) # {}

\* client-level waits-for relation and its cycles (deadlock)
WaitEdge(c, d) == \E r \in Reqs : req[r].st = "run" /\ req[r].conn = c /\ d \in WaitsFor(c, req[r])
RECURSIVE Reach(_, _, _)
Reach(c, d, n) == IF n = 0 THEN FALSE
                  ELSE WaitEdge(c, d) \/ \E e \in Conns : WaitEdge(c, e) /\ Reach(e, d, n - 1)
InDeadlock(c) == Reach(c, c, PoolMax)

\* ------------------------------------------------- statement execution
\* stock_movement.type CHECK constraint
schemaTypes == {"STOCK_IN", "SALE", "REMOVAL", "TRANSFER"}

\* mutant: every record is written with quantity 1
MovementUnitQuantity(id, s, p, n, t, ref) ==
    [id |-> id, store_id |-> s, product_id |-> p, quantity |-> 1, type |-> t, reference_id |-> ref]

Movement(id, s, p, n, t, ref) ==
    [id |-> id, store_id |-> s, product_id |-> p, quantity |-> n, type |-> t, reference_id |-> ref]

\* Result of a statement that changes nothing.
Same(c) == [ok |-> TRUE, stores |-> stores, products |-> products, inv |-> inv, ledger |-> ledger, tx |-> tx, nextMovId |-> nextMovId,
            rows |-> rows, created |-> created,
            found |-> FALSE, qty |-> 0, id |-> 0]

\* A failed statement: pool.query releases the client with the error, the
\* pool destroys it and the server rolls its open transaction back.
Failed(c) == [Same(c) EXCEPT !.ok = FALSE, !.tx = [tx EXCEPT ![c] = EmptyTx]]

SelectInv(c, p) ==
    IF p \in DOMAIN VisInv(c)
    THEN [Same(c) EXCEPT !.found = TRUE, !.qty = VisInv(c)[p]]
    ELSE Same(c)

AddRow(R, p) == [R EXCEPT ![p] = @ + 1]

\* mutant: store_inventory has no UNIQUE(store_id, product_id)
InsertInvNoUniqueIndex(c, p) ==
    IF p[1] \notin VisStores(c) \/ p[2] \notin VisProducts(c)
    THEN Failed(c)
    ELSE IF tx[c].open
         THEN [Same(c) EXCEPT !.tx = [tx EXCEPT ![c].winv = Put(@, p, 0), ![c].ins = @ \cup {p}]]
         ELSE [Same(c) EXCEPT !.inv = Put(inv, p, 0), !.rows = AddRow(rows, p)]

\* INSERT INTO store_inventory (store_id, product_id, quantity, price) VALUES (s, p, 0, ..)
InsertInv(c, p) ==
    IF p \in DOMAIN VisInv(c) \/ p[1] \notin VisStores(c) \/ p[2] \notin VisProducts(c)
    THEN Failed(c)                       \* UNIQUE(store_id, product_id) / FOREIGN KEY
    ELSE IF tx[c].open
         THEN [Same(c) EXCEPT !.tx = [tx EXCEPT ![c].winv = Put(@, p, 0), ![c].ins = @ \cup {p}]]
         ELSE [Same(c) EXCEPT !.inv = Put(inv, p, 0), !.rows = AddRow(rows, p)]

\* mutant: UPDATE does not see a row inserted earlier in its own transaction
UpdateInvSkipsOwnWrites(c, p, v) ==
    IF p \notin DOMAIN inv
    THEN Same(c)
    ELSE IF tx[c].open
         THEN [Same(c) EXCEPT !.tx = [tx EXCEPT ![c].winv = Put(@, p, v)], !.found = TRUE, !.qty = v]
         ELSE [Same(c) EXCEPT !.inv = Put(inv, p, v), !.found = TRUE, !.qty = v]

\* UPDATE store_inventory SET quantity = v WHERE <row p>
UpdateInv(c, p, v) ==
    IF p \in DOMAIN tx[c].winv
    THEN [Same(c) EXCEPT !.tx = [tx EXCEPT ![c].winv = Put(@, p, v)], !.found = TRUE, !.qty = v]
    ELSE IF p \notin DOMAIN inv
         THEN Same(c)                    \* no visible row: UPDATE 0
         ELSE IF tx[c].open
              THEN [Same(c) EXCEPT !.tx = [tx EXCEPT ![c].winv = Put(@, p, v)], !.found = TRUE, !.qty = v]
              ELSE [Same(c) EXCEPT !.inv = Put(inv, p, v), !.found = TRUE, !.qty = v]

\* created_at TIMESTAMP DEFAULT CURRENT_TIMESTAMP: the start time of the
\* current transaction (of the statement, outside a transaction)
CurrentTimestamp(c) == IF tx[c].open THEN tx[c].ts ELSE now

\* INSERT INTO stock_movement (...) RETURNING *
InsertMovement(c, s, p, n, t, ref) ==
    IF t \notin schemaTypes \/ s \notin VisStores(c) \/ p \notin VisProducts(c)
    THEN [Failed(c) EXCEPT !.nextMovId = nextMovId + 1]
    ELSE LET m == Movement(nextMovId, s, p, n, t, ref) IN
         IF tx[c].open
         THEN [Same(c) EXCEPT !.tx = [tx EXCEPT ![c].wled = @ \cup {m}],
                              !.created = Put(created, nextMovId, CurrentTimestamp(c)),
                              !.nextMovId = nextMovId + 1, !.id = nextMovId]
         ELSE [Same(c) EXCEPT !.ledger = ledger \cup {m},
                              !.created = Put(created, nextMovId, CurrentTimestamp(c)),
                              !.nextMovId = nextMovId + 1, !.id = nextMovId]

AddRows(R, S) == [p \in DOMAIN R |-> IF p \in S THEN R[p] + 1 ELSE R[p]]

\* BEGIN on a client already in a transaction only raises a warning.
Begin(c) ==
    IF tx[c].open THEN Same(c)
    ELSE [Same(c) EXCEPT !.tx = [tx EXCEPT ![c].open = TRUE, ![c].ts = now]]

\* mutant: COMMIT replaces the ledger by the transaction's records
CommitOverwritesLedger(c) ==
    [Same(c) EXCEPT !.inv = Merge(inv, tx[c].winv),
                    !.rows = AddRows(rows, tx[c].ins),
                    !.ledger = tx[c].wled,
                    !.tx = [tx EXCEPT ![c] = EmptyTx]]

\* COMMIT publishes the client's uncommitted writes (a warning and no effect
\* when the client has no open transaction).
Commit(c) ==
    [Same(c) EXCEPT !.stores = stores \ tx[c].dstores,
                    !.products = products \ tx[c].dproducts,
                    !.inv = Merge(inv, tx[c].winv),
                    !.rows = AddRows(rows, tx[c].ins),
                    !.ledger = ledger \cup tx[c].wled,
                    !.tx = [tx EXCEPT ![c] = EmptyTx]]

\* mutant: the failure path commits instead of rolling back
RollbackCommits(c) == Commit(c)

\* mutant: ROLLBACK discards the open transaction of every client
RollbackEveryTransaction(c) == [Same(c) EXCEPT !.tx = [d \in Conns |-> EmptyTx]]

Rollback(c) == [Same(c) EXCEPT !.tx = [tx EXCEPT ![c] = EmptyTx]]

\* SELECT ... WHERE id = $1 on store / product_catalog
\* mutant: the store lookup reports a row for every id
SelectStoreAlwaysFinds(c, s) == [Same(c) EXCEPT !.found = TRUE]

SelectStore(c, s) == [Same(c) EXCEPT !.found = (s \in VisStores(c))]
SelectProduct(c, p) == [Same(c) EXCEPT !.found = (p \in VisProducts(c))]

\* SELECT id FROM store_inventory / stock_movement WHERE store_id = $1 LIMIT 1
SelectInvOfStore(c, s) == [Same(c) EXCEPT !.found = (\E p \in DOMAIN VisInv(c) : p[1] = s)]
SelectMovOfStore(c, s) == [Same(c) EXCEPT !.found = (\E m \in VisLedger(c) : m.store_id = s)]
\* SELECT id FROM store_inventory WHERE product_id = $1 LIMIT 1
SelectInvOfProduct(c, p) == [Same(c) EXCEPT !.found = (\E k \in DOMAIN VisInv(c) : k[2] = p)]

\* mutant: the tables carry no foreign keys
DeleteStoreNoForeignKey(c, s) ==
    IF s \notin VisStores(c) THEN Same(c)
    ELSE IF tx[c].open
         THEN [Same(c) EXCEPT !.tx = [tx EXCEPT ![c].dstores = @ \cup {s}], !.found = TRUE]
         ELSE [Same(c) EXCEPT !.stores = stores \ {s}, !.found = TRUE]

\* DELETE FROM store WHERE id = $1; the foreign keys of store_inventory and
\* stock_movement (no ON DELETE clause) reject it while a row references s.
DeleteStore(c, s) ==
    IF s \notin VisStores(c) THEN Same(c)
    ELSE IF SelectInvOfStore(c, s).found \/ SelectMovOfStore(c, s).found
         THEN Failed(c)
         ELSE IF tx[c].open
              THEN [Same(c) EXCEPT !.tx = [tx EXCEPT ![c].dstores = @ \cup {s}], !.found = TRUE]
              ELSE [Same(c) EXCEPT !.stores = stores \ {s}, !.found = TRUE]

\* DELETE FROM product_catalog WHERE id = $1
DeleteProduct(c, p) ==
    IF p \notin VisProducts(c) THEN Same(c)
    ELSE IF SelectInvOfProduct(c, p).found \/ (\E m \in VisLedger(c) : m.product_id = p)
         THEN Failed(c)
         ELSE IF tx[c].open
              THEN [Same(c) EXCEPT !.tx = [tx EXCEPT ![c].dproducts = @ \cup {p}], !.found = TRUE]
              ELSE [Same(c) EXCEPT !.products = products \ {p}, !.found = TRUE]

\* updateInventory: the quantity parameter $1 of its UPDATE
\* (quantity !== undefined ? quantity : currentInventory.quantity), then
\* COALESCE($1, quantity).
UpdParamIsNull(q) == q.body.qkind = "null"
UpdParam(q) == IF q.body.qkind = "undefined" THEN q.cur ELSE q.body.quantity

UpdateInventoryRow(c, q) ==
    LET p == SrcPair(q) IN
    IF p \notin DOMAIN VisInv(c) THEN Same(c)
    ELSE UpdateInv(c, p, IF UpdParamIsNull(q) THEN VisInv(c)[p] ELSE UpdParam(q))

changeAmount(q) == (IF q.body.qkind = "null" THEN 0 ELSE q.body.quantity) - q.cur
Abs(n) == IF n < 0 THEN 0 - n ELSE n
\* mutant: every adjustment is recorded as a removal
movementTypeAlwaysRemoval(q) == "REMOVAL"

movementType(q) == IF changeAmount(q) > 0 THEN "STOCK_IN" ELSE "REMOVAL"

\* ---- getStockMovements: const { page = 1, limit = 20, ... } = req.query
Page(y) == IF y.page = 0 THEN 1 ELSE y.page
Limit(y) == IF y.limit = 0 THEN defaultLimit ELSE y.limit
\* mutant: the offset skips one page too many
offsetSkipsFirstPage(y) == Page(y) * Limit(y)

offset(y) == (Page(y) - 1) * Limit(y)

\* the WHERE clause: one condition per parameter that is present
whereConditions(m, y, C) ==
    /\ y.startDate # 0 => C[m.id] >= y.startDate
    /\ y.endDate # 0 => C[m.id] <= y.endDate
    /\ y.type # "" => m.type = y.type
    /\ y.productId # 0 => m.product_id = y.productId
    /\ y.storeId # 0 => m.store_id = y.storeId

\* queryBase: stock_movement JOIN product_catalog JOIN store WHERE ...
queryBase(c, y) ==
    {m \in VisLedger(c) : /\ m.product_id \in VisProducts(c)
                          /\ m.store_id \in VisStores(c)
                          /\ whereConditions(m, y, created)}

\* ORDER BY sm.created_at DESC: every arrangement of the rows with
\* non-increasing created_at; rows with equal created_at come in any order
OrderByCreatedDesc(S) ==
    {f \in [1..Cardinality(S) -> S] :
        /\ \A i, j \in 1..Cardinality(S) : i # j => f[i] # f[j]
        /\ \A i \in 1..(Cardinality(S) - 1) : created[f[i].id] >= created[f[i + 1].id]}

\* LIMIT $n OFFSET $m
LimitOffset(f, y) ==
    IF offset(y) >= Len(f) THEN <<>>
    ELSE SubSeq(f, offset(y) + 1, IF offset(y) + Limit(y) < Len(f) THEN offset(y) + Limit(y) ELSE Len(f))

\* Math.ceil(total / limit)
totalPages(total, limit) == (total + limit - 1) \div limit

\* The statement request record q has in flight, run on client c.
Exec(c, q) ==
    CASE q.stmt \in {"BEGIN", "uBEGIN"} -> Begin(c)
      [] q.stmt \in {"COMMIT", "uCOMMIT"} -> Commit(c)
      [] q.stmt \in {"rb404", "rbInsuf", "rbCatch", "uRbCatch"} -> Rollback(c)
      [] q.stmt = "selProduct" -> SelectProduct(c, q.body.productId)
      [] q.stmt = "selStore" -> SelectStore(c, q.body.storeId)
      [] q.stmt = "selDestStore" -> SelectStore(c, q.body.destinationStoreId)
      [] q.stmt \in {"selSrcInv", "uSel"} -> SelectInv(c, SrcPair(q))
      [] q.stmt = "insSrcInv" -> InsertInv(c, SrcPair(q))
      [] q.stmt = "insMov" ->
            InsertMovement(c, q.body.storeId, q.body.productId, q.body.quantity,
                           q.body.type, q.body.referenceId)
      [] q.stmt = "updSrc" -> UpdateInv(c, SrcPair(q), q.newSrc)
      [] q.stmt = "selDestInv" -> SelectInv(c, DstPair(q))
      [] q.stmt = "insDestInv" -> InsertInv(c, DstPair(q))
      [] q.stmt = "updDest" -> UpdateInv(c, DstPair(q), q.destQty + q.body.quantity)
      [] q.stmt = "insDestMov" ->
            InsertMovement(c, q.body.destinationStoreId, q.body.productId, q.body.quantity,
                           "STOCK_IN",
                           IF q.body.referenceId # NullRef THEN q.body.referenceId
                           ELSE IdToString(q.movId))
      [] q.stmt = "uUpd" -> UpdateInventoryRow(c, q)
      [] q.stmt = "dsSel" -> SelectStore(c, q.body.storeId)
      [] q.stmt = "dsInvChk" -> SelectInvOfStore(c, q.body.storeId)
      [] q.stmt = "dsMovChk" -> SelectMovOfStore(c, q.body.storeId)
      [] q.stmt = "dsDel" -> DeleteStore(c, q.body.storeId)
      [] q.stmt = "dpSel" -> SelectProduct(c, q.body.productId)
      [] q.stmt = "dpInvChk" -> SelectInvOfProduct(c, q.body.productId)
      [] q.stmt = "dpDel" -> DeleteProduct(c, q.body.productId)
      [] q.stmt = "gCount" -> [Same(c) EXCEPT !.qty = Cardinality(queryBase(c, q.query))]
      [] q.stmt = "uIns" ->
            InsertMovement(c, q.body.storeId, q.body.productId, Abs(changeAmount(q)),
                           movementType(q), NullRef)

\* ------------------------------------------------------ connection pool
\* The pool as a value, so that release / remove / acquire compose within
\* one handler step.
Pool == [alive |-> alive, idle |-> idle, pending |-> pending, req |-> req]

FreeSlot(P) == CHOOSE c \in Conns \ P.alive : \A d \in Conns \ P.alive : c <= d

\* client.release(): the oldest queued query gets the client at once,
\* otherwise the client becomes the newest idle client.
Release(P, c) ==
    IF P.pending # <<>>
    THEN LET h == Head(P.pending) IN
         [P EXCEPT !.pending = Tail(@), !.req[h].st = "run", !.req[h].conn = c]
    ELSE [P EXCEPT !.idle = Append(@, c)]

\* client.release(err): the client is destroyed; the room it leaves goes to
\* the oldest queued query, which gets a fresh client.
Remove(P, c) ==
    LET P1 == [P EXCEPT !.alive = @ \ {c}] IN
    IF P1.pending # <<>>
    THEN LET h == Head(P1.pending)
             n == FreeSlot(P1) IN
         [P1 EXCEPT !.pending = Tail(@), !.alive = @ \cup {n},
                    !.req[h].st = "run", !.req[h].conn = n]
    ELSE P1

\* db.query(stmt) by request r: newest idle client, else a new client while
\* fewer than PoolMax exist, else wait in the queue.
Acquire(P, r, stmt) ==
    IF P.idle # <<>>
    THEN [P EXCEPT !.idle = SubSeq(@, 1, Len(@) - 1),
                   !.req[r].st = "run", !.req[r].stmt = stmt, !.req[r].conn = P.idle[Len(P.idle)]]
    ELSE IF Cardinality(P.alive) < PoolMax
         THEN LET n == FreeSlot(P) IN
              [P EXCEPT !.alive = @ \cup {n},
                        !.req[r].st = "run", !.req[r].stmt = stmt, !.req[r].conn = n]
         ELSE [P EXCEPT !.pending = Append(@, r),
                        !.req[r].st = "wait", !.req[r].stmt = stmt, !.req[r].conn = 0]

\* res.status(..).json(..) / next(error): the request is answered.
Respond(P, r, resp) ==
    [P EXCEPT !.req[r].st = "done", !.req[r].stmt = "", !.req[r].conn = 0, !.req[r].resp = resp]

SetPool(P) ==
    /\ alive' = P.alive
    /\ idle' = P.idle
    /\ pending' = P.pending
    /\ req' = P.req

SetDb(E) ==
    /\ stores' = E.stores
    /\ products' = E.products
    /\ inv' = E.inv
    /\ ledger' = E.ledger
    /\ tx' = E.tx
    /\ nextMovId' = E.nextMovId
    /\ rows' = E.rows
    /\ created' = E.created

\* ------------------------------------- InventoryController.createStockMovement
WithResp(P, r, resp) == [P EXCEPT !.req[r].resp = resp]

\* mutant: the stock guard answers like the quantity validation
InsufficientStockAsValidation(cur, n) == Resp(400, "Quantity must be greater than zero")

InsufficientStock(cur, n) ==
    [Resp(400, "Insufficient stock") EXCEPT !.available = cur, !.requested = n]

\* const currentQuantity = ...; the outgoing-stock guard; then the ledger insert
CheckStock(P, r, cur) ==
    LET b == P.req[r].body
        P1 == [P EXCEPT !.req[r].cur = cur] IN
    IF b.type \in outgoingTypes /\ cur < b.quantity
    THEN Acquire(WithResp(P1, r, InsufficientStock(cur, b.quantity)), r, "rbInsuf")
    ELSE Acquire(P1, r, "insMov")

\* mutant: the outgoing branch adds instead of subtracting
newSourceQuantityAlwaysAdds(type, cur, n) == cur + n

\* mutant: a transfer does not debit the source store
newSourceQuantityKeepsOnTransfer(type, cur, n) ==
    IF type = "STOCK_IN" THEN cur + n ELSE IF type = "TRANSFER" THEN cur ELSE cur - n

newSourceQuantity(type, cur, n) == IF type = "STOCK_IN" THEN cur + n ELSE cur - n

\* What the handler does when its awaited query resolves with result E.
MoveNext(P, r, E) ==
    LET q == P.req[r]
        b == q.body IN
    CASE q.stmt = "BEGIN" -> Acquire(P, r, "selProduct")
      [] q.stmt = "selProduct" ->
            IF ~E.found
            THEN Acquire(WithResp(P, r, Resp(404, "Product not found")), r, "rb404")
            ELSE Acquire(P, r, "selStore")
      [] q.stmt = "selStore" ->
            IF ~E.found
            THEN Acquire(WithResp(P, r, Resp(404, "Store not found")), r, "rb404")
            ELSE IF b.type = "TRANSFER" THEN Acquire(P, r, "selDestStore")
                 ELSE Acquire(P, r, "selSrcInv")
      [] q.stmt = "selDestStore" ->
            IF ~E.found
            THEN Acquire(WithResp(P, r, Resp(404, "Destination store not found")), r, "rb404")
            ELSE Acquire(P, r, "selSrcInv")
      [] q.stmt = "selSrcInv" ->
            IF ~E.found THEN Acquire(P, r, "insSrcInv") ELSE CheckStock(P, r, E.qty)
      [] q.stmt = "insSrcInv" -> CheckStock(P, r, 0)
      [] q.stmt = "insMov" ->
            Acquire([P EXCEPT !.req[r].movId = E.id,
                              !.req[r].newSrc = newSourceQuantity(b.type, q.cur, b.quantity)],
                    r, "updSrc")
      [] q.stmt = "updSrc" ->
            IF b.type = "TRANSFER" THEN Acquire(P, r, "selDestInv") ELSE Acquire(P, r, "COMMIT")
      [] q.stmt = "selDestInv" ->
            IF ~E.found
            THEN Acquire([P EXCEPT !.req[r].destQty = 0], r, "insDestInv")
            ELSE Acquire([P EXCEPT !.req[r].destQty = E.qty], r, "updDest")
      [] q.stmt = "insDestInv" -> Acquire(P, r, "updDest")
      [] q.stmt = "updDest" -> Acquire(P, r, "insDestMov")
      [] q.stmt = "insDestMov" -> Acquire([P EXCEPT !.req[r].destMovId = E.id], r, "COMMIT")
      [] q.stmt = "COMMIT" -> Respond(P, r, [Resp(201, "") EXCEPT !.new_quantity = q.newSrc])
      [] q.stmt \in {"rb404", "rbInsuf"} -> Respond(P, r, q.resp)
      [] q.stmt = "rbCatch" -> Respond(P, r, Resp(500, "storage"))

\* The awaited query rejected: BEGIN is outside the inner try, every other
\* statement is caught by `catch { await db.query('ROLLBACK'); throw error }`.
MoveError(P, r) ==
    IF P.req[r].stmt \in {"BEGIN", "rbCatch"}
    THEN Respond(P, r, Resp(500, "storage"))
    ELSE Acquire(P, r, "rbCatch")

\* mutant: the sign of the quantity is not checked
MoveValidationNoSignCheck(b) ==
    IF b.storeId = 0 \/ b.productId = 0 \/ b.quantity = 0 \/ b.type = ""
    THEN Resp(400, "Store ID, product ID, quantity, and movement type are required")
    ELSE IF b.type \notin validTypes
    THEN Resp(400, "Movement type must be one of")
    ELSE IF b.type = "TRANSFER" /\ b.destinationStoreId = 0
    THEN Resp(400, "Destination store ID is required for transfers")
    ELSE NoResp

\* Validation before the transaction is opened.
MoveValidation(b) ==
    IF b.storeId = 0 \/ b.productId = 0 \/ b.quantity = 0 \/ b.type = ""
    THEN Resp(400, "Store ID, product ID, quantity, and movement type are required")
    ELSE IF b.type \notin validTypes
    THEN Resp(400, "Movement type must be one of")
    ELSE IF b.type = "TRANSFER" /\ b.destinationStoreId = 0
    THEN Resp(400, "Destination store ID is required for transfers")
    ELSE IF b.quantity <= 0
    THEN Resp(400, "Quantity must be greater than zero")
    ELSE NoResp

\* ------------------------------------------ InventoryController.updateInventory
\* mutant: the quantity is not compared with the current one
quantityChangedWhenPresent(q) == q.body.qkind # "undefined"

quantityChanged(q) ==
    q.body.qkind # "undefined" /\ (q.body.qkind = "null" \/ q.body.quantity # q.cur)

UpdNext(P, r, E) ==
    LET q == P.req[r] IN
    CASE q.stmt = "uSel" ->
            IF ~E.found
            THEN Respond(P, r, Resp(404, "Inventory record not found"))
            ELSE Acquire([P EXCEPT !.req[r].cur = E.qty], r, "uBEGIN")
      [] q.stmt = "uBEGIN" -> Acquire(P, r, "uUpd")
      [] q.stmt = "uUpd" ->
            LET P1 == [P EXCEPT !.req[r].newSrc = E.qty] IN
            IF quantityChanged(q) THEN Acquire(P1, r, "uIns") ELSE Acquire(P1, r, "uCOMMIT")
      [] q.stmt = "uIns" -> Acquire(P, r, "uCOMMIT")
      [] q.stmt = "uCOMMIT" -> Respond(P, r, [Resp(200, "") EXCEPT !.new_quantity = q.newSrc])
      [] q.stmt = "uRbCatch" -> Respond(P, r, Resp(500, "storage"))

UpdError(P, r) ==
    IF P.req[r].stmt \in {"uSel", "uBEGIN", "uRbCatch"}
    THEN Respond(P, r, Resp(500, "storage"))
    ELSE Acquire(P, r, "uRbCatch")

\* --------------------------------------------- StoreController.deleteStore
DelStoreNext(P, r, E) ==
    LET q == P.req[r] IN
    CASE q.stmt = "dsSel" ->
            IF ~E.found THEN Respond(P, r, Resp(404, "Store not found"))
            ELSE Acquire(P, r, "dsInvChk")
      [] q.stmt = "dsInvChk" ->
            IF E.found
            THEN Respond(P, r, Resp(409, "Cannot delete store with existing inventory records"))
            ELSE Acquire(P, r, "dsMovChk")
      [] q.stmt = "dsMovChk" ->
            IF E.found
            THEN Respond(P, r, Resp(409, "Cannot delete store with existing stock movement records"))
            ELSE Acquire(P, r, "dsDel")
      [] q.stmt = "dsDel" -> Respond(P, r, Resp(200, ""))

\* ------------------------------------- ProductCatalogController.deleteProduct
DelProductNext(P, r, E) ==
    LET q == P.req[r] IN
    CASE q.stmt = "dpSel" ->
            IF ~E.found THEN Respond(P, r, Resp(404, "Product not found"))
            ELSE Acquire(P, r, "dpInvChk")
      [] q.stmt = "dpInvChk" ->
            IF E.found
            THEN Respond(P, r, Resp(409, "Cannot delete product with existing inventory records"))
            ELSE Acquire(P, r, "dpDel")
      [] q.stmt = "dpDel" -> Respond(P, r, Resp(200, ""))

\* catch (error) { next(error) }: no ROLLBACK is issued
DelError(P, r) == Respond(P, r, Resp(500, "storage"))

\* ------------------------------------ InventoryController.getStockMovements
\* the count query resolved; the page query is issued next
ListNext(P, r, E) == Acquire([P EXCEPT !.req[r].cur = E.qty], r, "gRows")

\* res.json({ movements, pagination }) with the rows f the page query returned
ListResponse(P, r, f) ==
    LET q == P.req[r] IN
    Respond(P, r, [Resp(200, "") EXCEPT !.movements = f, !.total = q.cur,
                                         !.totalPages = totalPages(q.cur, Limit(q.query))])

\* ------------------------------- legacy StockMovementController.createMovement
\* The legacy controller runs on SQLite through the one connection `db`
\* that all requests share.  A write goes to the tables at once; BEGIN
\* remembers the tables (undo) and ROLLBACK puts them back.
legacyTypes == {"STOCK_IN", "SALE", "REMOVAL"}

LegacyValidation(b) ==
    IF b.productId = 0 \/ b.quantity = 0 \/ b.type = ""
    THEN Resp(400, "Product ID, quantity and type are required")
    ELSE IF b.type \notin legacyTypes
    THEN Resp(400, "Type must be one of: STOCK_IN, SALE, REMOVAL")
    ELSE NoResp

LegacySame(D) == [ok |-> TRUE, db |-> D, found |-> FALSE, qty |-> 0, id |-> 0]
LegacyError(D) == [LegacySame(D) EXCEPT !.ok = FALSE]

LegacyMovement(id, p, n, t, ref) ==
    [id |-> id, product_id |-> p, quantity |-> n, type |-> t, reference_id |-> ref]

LegacyRollback(D) ==
    IF ~D.open THEN LegacyError(D)       \* cannot rollback - no transaction is active
    ELSE LegacySame([D EXCEPT !.product = D.undo.product,
                              !.stock_movement = D.undo.stock_movement,
                              !.lastID = D.undo.lastID, !.open = FALSE])

\* UPDATE product SET quantity = ? WHERE id = ?
LegacyUpdate(D, p, v) ==
    IF p \in DOMAIN D.product THEN LegacySame([D EXCEPT !.product[p] = v]) ELSE LegacySame(D)

\* The statement request record q has in flight on the connection.
LegacyExec(D, q) ==
    CASE q.stmt = "lBEGIN" ->
            IF D.open THEN LegacyError(D) \* cannot start a transaction within a transaction
            ELSE LegacySame([D EXCEPT !.open = TRUE,
                                      !.undo = [product |-> D.product,
                                                stock_movement |-> D.stock_movement,
                                                lastID |-> D.lastID]])
      [] q.stmt = "lSel" ->
            IF q.body.productId \in DOMAIN D.product
            THEN [LegacySame(D) EXCEPT !.found = TRUE, !.qty = D.product[q.body.productId]]
            ELSE LegacySame(D)
      [] q.stmt \in {"lRb404", "lRbInsuf", "lRbCatch"} -> LegacyRollback(D)
      [] q.stmt = "lIns" ->
            [LegacySame([D EXCEPT !.stock_movement =
                                      @ \cup {LegacyMovement(D.lastID + 1, q.body.productId,
                                                             q.body.quantity, q.body.type,
                                                             q.body.referenceId)},
                                  !.lastID = D.lastID + 1])
                EXCEPT !.id = D.lastID + 1]
      [] q.stmt = "lUpd" -> LegacyUpdate(D, q.body.productId, q.newSrc)
      [] q.stmt = "lCOMMIT" ->
            IF ~D.open THEN LegacyError(D) \* cannot commit - no transaction is active
            ELSE LegacySame([D EXCEPT !.open = FALSE])
      [] q.stmt = "lGet" -> [LegacySame(D) EXCEPT !.found = TRUE]

LegacyIssue(q, stmt) == [q EXCEPT !.stmt = stmt]
LegacyRespond(q, resp) == [q EXCEPT !.st = "done", !.stmt = "", !.resp = resp]

\* newQuantity = product.quantity +/- quantity and the stock test
LegacyCheck(q, cur) ==
    LET b == q.body
        newQuantity == IF b.type = "STOCK_IN" THEN cur + b.quantity ELSE cur - b.quantity
        q1 == [q EXCEPT !.cur = cur, !.newSrc = newQuantity] IN
    IF b.type # "STOCK_IN" /\ newQuantity < 0
    THEN LegacyIssue([q1 EXCEPT !.resp = Resp(400, "Insufficient stock")], "lRbInsuf")
    ELSE LegacyIssue(q1, "lIns")

\* What the handler does when its awaited statement resolves with E: every
\* throw lands in `catch { await db.run('ROLLBACK').catch(() => {}); next(error) }`.
LegacyNext(q, E) ==
    CASE q.stmt = "lRbCatch" ->
            LegacyRespond(q, IF q.resp = NoResp THEN Resp(500, "storage") ELSE q.resp)
      [] ~E.ok -> LegacyIssue([q EXCEPT !.resp = Resp(500, "storage")], "lRbCatch")
      [] q.stmt = "lBEGIN" -> LegacyIssue(q, "lSel")
      [] q.stmt = "lSel" ->
            IF ~E.found
            THEN LegacyIssue([q EXCEPT !.resp = Resp(404, "Product not found")], "lRb404")
            ELSE LegacyCheck(q, E.qty)
      [] q.stmt \in {"lRb404", "lRbInsuf"} -> LegacyIssue(q, "lRbCatch")
      [] q.stmt = "lIns" -> LegacyIssue([q EXCEPT !.movId = E.id], "lUpd")
      [] q.stmt = "lUpd" -> LegacyIssue(q, "lCOMMIT")
      [] q.stmt = "lCOMMIT" -> LegacyIssue(q, "lGet")
      [] q.stmt = "lGet" -> LegacyRespond(q, [Resp(201, "") EXCEPT !.new_quantity = q.newSrc])

\* ---------------------------------------------------------------- actions
Active(r) == req[r].st \in {"run", "wait", "sql"}
\* request slots are taken in order
MayStart(r) == req[r].st = "new" /\ \A o \in Reqs : o < r => req[o].st # "new"
\* the committed tables, as a reader on a client of its own sees them
Snapshot == [inv |-> inv, ledger |-> ledger]
\* the requests in progress (recorded when a request arrives)
Overlapping == {o \in Reqs : Active(o)}

\* POST /api/inventory/movements with body b
createStockMovement(r, b) ==
    /\ MayStart(r)
    /\ LET P == [Pool EXCEPT !.req[r].op = "move", !.req[r].body = b,
                              !.req[r].pre = Snapshot, !.req[r].with = Overlapping] IN
       IF MoveValidation(b) # NoResp
       THEN SetPool(Respond(P, r, MoveValidation(b)))
       ELSE SetPool(Acquire(P, r, "BEGIN"))
    /\ UNCHANGED <<stores, products, inv, ledger, nextMovId, tx, failures, rows, now, created, sqlite>>

\* PUT /api/inventory/:inventoryId with body b (storeId = 0: the id is not a number)
updateInventory(r, b) ==
    /\ MayStart(r)
    /\ LET P == [Pool EXCEPT !.req[r].op = "upd", !.req[r].body = b,
                              !.req[r].pre = Snapshot, !.req[r].with = Overlapping] IN
       IF b.storeId = 0
       THEN SetPool(Respond(P, r, Resp(400, "Valid inventory ID is required")))
       ELSE SetPool(Acquire(P, r, "uSel"))
    /\ UNCHANGED <<stores, products, inv, ledger, nextMovId, tx, failures, rows, now, created, sqlite>>

\* DELETE /api/stores/:id (id = 0: the id is not a number)
deleteStore(r, id) ==
    /\ MayStart(r)
    /\ LET P == [Pool EXCEPT !.req[r].op = "delStore", !.req[r].body = [NoBody EXCEPT !.storeId = id],
                              !.req[r].pre = Snapshot, !.req[r].with = Overlapping] IN
       IF id = 0
       THEN SetPool(Respond(P, r, Resp(400, "Valid store ID is required")))
       ELSE SetPool(Acquire(P, r, "dsSel"))
    /\ UNCHANGED <<stores, products, inv, ledger, nextMovId, tx, failures, rows, now, created, sqlite>>

\* DELETE /api/products/:id
deleteProduct(r, id) ==
    /\ MayStart(r)
    /\ LET P == [Pool EXCEPT !.req[r].op = "delProduct", !.req[r].body = [NoBody EXCEPT !.productId = id],
                              !.req[r].pre = Snapshot, !.req[r].with = Overlapping] IN
       IF id = 0
       THEN SetPool(Respond(P, r, Resp(400, "Valid product ID is required")))
       ELSE SetPool(Acquire(P, r, "dpSel"))
    /\ UNCHANGED <<stores, products, inv, ledger, nextMovId, tx, failures, rows, now, created, sqlite>>

\* GET /api/inventory/movements with query parameters y
getStockMovements(r, y) ==
    /\ MayStart(r)
    /\ SetPool(Acquire([Pool EXCEPT !.req[r].op = "list", !.req[r].query = y,
                                    !.req[r].pre = Snapshot, !.req[r].with = Overlapping],
                        r, "gCount"))
    /\ UNCHANGED <<stores, products, inv, ledger, nextMovId, tx, failures, rows, now, created, sqlite>>

\* POST /api/stock-movements (legacy) with body b
createMovement(r, b) ==
    /\ MayStart(r)
    /\ LET q == [req[r] EXCEPT !.op = "legacy", !.body = b, !.st = "sql",
                               !.pre = Snapshot, !.with = Overlapping] IN
       req' = [req EXCEPT ![r] =
                  IF LegacyValidation(b) # NoResp
                  THEN LegacyIssue([q EXCEPT !.resp = LegacyValidation(b)], "lRbCatch")
                  ELSE LegacyIssue(q, "lBEGIN")]
    /\ UNCHANGED <<stores, products, inv, ledger, nextMovId, tx, alive, idle, pending,
                   failures, rows, now, created, sqlite>>

\* The statement legacy request r has in flight completes and the handler
\* runs on to its next await (or to its response).
LegacyComplete(r) ==
    /\ req[r].st = "sql"
    /\ LET E == LegacyExec(sqlite, req[r]) IN
       /\ sqlite' = E.db
       /\ req' = [req EXCEPT ![r] = LegacyNext(req[r], E)]
    /\ UNCHANGED <<stores, products, inv, ledger, nextMovId, tx, alive, idle, pending,
                   failures, rows, now, created>>

OnResult(P, r, E) ==
    CASE P.req[r].op = "move" -> MoveNext(P, r, E)
      [] P.req[r].op = "list" -> ListNext(P, r, E)
      [] P.req[r].op = "upd" -> UpdNext(P, r, E)
      [] P.req[r].op = "delStore" -> DelStoreNext(P, r, E)
      [] P.req[r].op = "delProduct" -> DelProductNext(P, r, E)
OnError(P, r) ==
    CASE P.req[r].op = "move" -> MoveError(P, r)
      [] P.req[r].op = "upd" -> UpdError(P, r)
      [] OTHER -> DelError(P, r)

\* The query request r has in flight completes and the handler runs on to
\* its next await (or to its response).
Complete(r) ==
    /\ req[r].st = "run"
    /\ req[r].stmt # "gRows"
    /\ ~Blocked(r)
    /\ LET c == req[r].conn
           E == Exec(c, req[r]) IN
       /\ SetDb(E)
       /\ IF E.ok
          THEN SetPool(OnResult(Release(Pool, c), r, E))
          ELSE SetPool(OnError(Remove(Pool, c), r))
    /\ UNCHANGED <<failures, now, sqlite>>

\* The page query of getStockMovements completes: the server returns the
\* matching rows in one of the orders ORDER BY created_at DESC admits.
CompleteRows(r) ==
    /\ req[r].st = "run"
    /\ req[r].stmt = "gRows"
    /\ LET c == req[r].conn IN
       \E f \in OrderByCreatedDesc(queryBase(c, req[r].query)) :
           SetPool(ListResponse([Release(Pool, c) EXCEPT !.req[r].seen = VisLedger(c)], r,
                                LimitOffset(f, req[r].query)))
    /\ UNCHANGED <<stores, products, inv, ledger, nextMovId, tx, failures, rows, now, created, sqlite>>

\* The server clock advances.
Tick ==
    /\ now < MaxTime
    /\ now' = now + 1
    /\ UNCHANGED <<stores, products, inv, ledger, nextMovId, tx, alive, idle, pending, req,
                   failures, rows, created, sqlite>>

\* The query in flight fails in the storage layer (I/O error).
StorageFailure(r) ==
    /\ req[r].st = "run"
    /\ failures < MaxFailures
    /\ failures' = failures + 1
    /\ SetDb(Failed(req[r].conn))
    /\ SetPool(OnError(Remove([Pool EXCEPT !.req[r].hit = TRUE], req[r].conn), r))
    /\ UNCHANGED <<now, sqlite>>

\* PostgreSQL's deadlock detector aborts a statement that waits in a cycle.
DeadlockAbort(r) ==
    /\ req[r].st = "run"
    /\ InDeadlock(req[r].conn)
    /\ SetDb(Failed(req[r].conn))
    /\ SetPool(OnError(Remove(Pool, req[r].conn), r))
    /\ UNCHANGED <<failures, now, sqlite>>

\* ----------------------------------------------------------- request bodies
MoveBody(s, p, n, t, d, ref) ==
    [storeId |-> s, productId |-> p, quantity |-> n, type |-> t,
     referenceId |-> ref, destinationStoreId |-> d, qkind |-> "num"]

\* requests the handler can serve (all ids exist, fields well-formed)
SerialBodies ==
    {MoveBody(1, 1, MaxQty, "STOCK_IN", 0, NullRef), MoveBody(2, 1, 1, "STOCK_IN", 0, NullRef),
     MoveBody(1, 1, 1, "SALE", 0, NullRef), MoveBody(1, 1, MaxQty, "SALE", 0, NullRef),
     MoveBody(2, 1, MaxQty, "SALE", 0, NullRef), MoveBody(1, 1, MaxQty, "REMOVAL", 0, NullRef),
     MoveBody(1, 1, 1, "TRANSFER", 2, NullRef), MoveBody(1, 1, MaxQty, "TRANSFER", 2, NullRef),
     MoveBody(2, 1, 1, "TRANSFER", 1, NullRef), MoveBody(1, 1, 1, "TRANSFER", 1, NullRef),
     MoveBody(1, 1, 1, "TRANSFER", 2, "REF")}
\* requests naming a store or product that does not exist
NotFoundBodies ==
    {MoveBody(3, 1, 1, "STOCK_IN", 0, NullRef), MoveBody(1, 2, 1, "SALE", 0, NullRef),
     MoveBody(1, 1, 1, "TRANSFER", 3, NullRef)}
\* requests with a missing field, a non-positive quantity or an unknown type
InvalidBodies ==
    {MoveBody(0, 1, 1, "SALE", 0, NullRef), MoveBody(1, 0, 1, "SALE", 0, NullRef),
     MoveBody(1, 1, 0, "STOCK_IN", 0, NullRef), MoveBody(1, 1, 1, "", 0, NullRef),
     MoveBody(1, 1, 0 - 1, "STOCK_IN", 0, NullRef), MoveBody(1, 1, 1, "BOGUS", 0, NullRef),
     MoveBody(1, 1, 1, "TRANSFER", 0, NullRef)}
InputBodies ==
    InvalidBodies \cup NotFoundBodies \cup {MoveBody(1, 1, MaxQty, "STOCK_IN", 0, NullRef)}

\* ------------------------------------------------------------ specifications
\* one row per pair of the aggregate table
RowsOf(I) == [p \in StoreIds \X ProductIds |-> IF p \in DOMAIN I THEN 1 ELSE 0]

\* the legacy database: the default store's product with no stock, no
\* movement, no transaction open on the connection
InitSqlite ==
    [product |-> [p \in Products |-> 0], stock_movement |-> {}, lastID |-> 0,
     open |-> FALSE, undo |-> [product |-> EmptyFn, stock_movement |-> {}, lastID |-> 0]]

\* the pool is empty and no request has arrived; the ledger's records were
\* written before the clock's current reading
InitPool ==
    /\ tx = [c \in Conns |-> EmptyTx]
    /\ alive = {}
    /\ idle = <<>>
    /\ pending = <<>>
    /\ req = [r \in Reqs |-> NewReq]
    /\ failures = 0
    /\ rows = RowsOf(inv)
    /\ now = 1
    /\ created = [i \in {m.id : m \in ledger} |-> 0]
    /\ sqlite = InitSqlite

\* empty ledger, no aggregate rows
Init ==
    /\ stores = Stores
    /\ products = Products
    /\ inv = EmptyFn
    /\ ledger = {}
    /\ nextMovId = 1
    /\ InitPool

Quiet == \A r \in Reqs : ~Active(r)

\* createStockMovement calls one after the other, each run to completion
SerialStart == \E r \in Reqs, b \in SerialBodies : Quiet /\ createStockMovement(r, b)
Step == \E r \in Reqs : Complete(r)
NextSerial == SerialStart \/ Step
SpecSerial == Init /\ [][NextSerial]_vars

\* the same, with requests the handler rejects
InputStart == \E r \in Reqs, b \in InputBodies : Quiet /\ createStockMovement(r, b)
NextInput == InputStart \/ Step
SpecInput == Init /\ [][NextInput]_vars

\* Concurrent requests.  Slots in Workers serve any of ConcBodies / UpdBodies;
\* the remaining slots serve a request for an unknown product, which runs
\* BEGIN, one SELECT and ROLLBACK.
UpdBody(s, p, kind, n) ==
    [storeId |-> s, productId |-> p, quantity |-> n, type |-> "",
     referenceId |-> NullRef, destinationStoreId |-> 0, qkind |-> kind]

ConcBodies ==
    {MoveBody(1, 1, n, "SALE", 0, NullRef) : n \in 1..MaxQty}
    \cup {MoveBody(1, 1, 1, "STOCK_IN", 0, NullRef),
          MoveBody(1, 1, 1, "TRANSFER", 2, NullRef), MoveBody(2, 1, 1, "TRANSFER", 1, NullRef)}
UpdBodies ==
    {UpdBody(1, 1, "num", 0 - 1), UpdBody(1, 1, "null", 0), UpdBody(1, 1, "undefined", 0),
     UpdBody(0, 1, "num", 1), UpdBody(3, 1, "num", 1)}
ShortBodies == {MoveBody(1, 2, 1, "SALE", 0, NullRef)}

\* a stocked shop: store 1 received MaxQty units of product 1, store 2 one unit
InitStocked ==
    /\ stores = Stores
    /\ products = Products
    /\ inv = Put(Put(EmptyFn, <<1, 1>>, MaxQty), <<2, 1>>, 1)
    /\ ledger = {Movement(1, 1, 1, MaxQty, "STOCK_IN", NullRef),
                 Movement(2, 2, 1, 1, "STOCK_IN", NullRef)}
    /\ nextMovId = 3
    /\ InitPool

ConcStart == \E r \in Workers, b \in ConcBodies : createStockMovement(r, b)
ConcAdjust == \E r \in Workers, b \in UpdBodies : updateInventory(r, b)
ShortStart == \E r \in Reqs \ Workers, b \in ShortBodies : createStockMovement(r, b)
Deadlock == \E r \in Reqs : DeadlockAbort(r)
Next == ConcStart \/ ConcAdjust \/ ShortStart \/ Step \/ Deadlock
Spec == InitStocked /\ [][Next]_vars

\* Concurrent createStockMovement calls with one storage failure.
FailBodies == {MoveBody(1, 1, 1, "SALE", 0, NullRef), MoveBody(1, 1, 1, "TRANSFER", 2, NullRef)}
FailStart == \E r \in Workers, b \in FailBodies : createStockMovement(r, b)
Fail == \E r \in Reqs : StorageFailure(r)
NextFail == FailStart \/ ShortStart \/ Step \/ Fail
SpecFail == InitStocked /\ [][NextFail]_vars

\* updateInventory calls one after the other on a stocked shop
AdjustBodies ==
    {UpdBody(s, 1, "num", n) : s \in Stores, n \in (0 - 1)..(MaxQty + 1)}
    \cup {UpdBody(1, 1, "null", 0), UpdBody(1, 1, "undefined", 0)}
AdjustStart == \E r \in Reqs, b \in AdjustBodies : Quiet /\ updateInventory(r, b)
NextAdjust == AdjustStart \/ Step
SpecAdjust == InitStocked /\ [][NextAdjust]_vars

\* A stock movement or an adjustment overlapping with store / product
\* deletions.  Store 1 holds product 1; store 2 and product 2 have no rows.
\* The first slot serves the movement or adjustment, the others deletions.
InitAdmin ==
    /\ stores = Stores
    /\ products = ProductIds
    /\ inv = Put(EmptyFn, <<1, 1>>, MaxQty)
    /\ ledger = {Movement(1, 1, 1, MaxQty, "STOCK_IN", NullRef)}
    /\ nextMovId = 2
    /\ InitPool

AdminBodies ==
    {MoveBody(2, 1, 1, "STOCK_IN", 0, NullRef), MoveBody(1, 2, 1, "STOCK_IN", 0, NullRef)}
AdminAdjustBodies == {UpdBody(1, 1, "num", 0)}
AdminMove == \E b \in AdminBodies : createStockMovement(1, b)
AdminAdjust == \E b \in AdminAdjustBodies : updateInventory(1, b)
AdminDeleteStore == \E r \in Reqs \ {1}, id \in Stores : deleteStore(r, id)
AdminDeleteProduct == \E r \in Reqs \ {1}, id \in ProductIds : deleteProduct(r, id)
NextAdmin == AdminMove \/ AdminAdjust \/ AdminDeleteStore \/ AdminDeleteProduct \/ Step
SpecAdmin == InitAdmin /\ [][NextAdmin]_vars

\* Two createStockMovement calls on disjoint (store, product) pairs, one
\* after the other or overlapping.  Both products exist; store 1 holds
\* MaxQty of product 1 and one unit of product 2.
InitCommute ==
    /\ stores = Stores
    /\ products = ProductIds
    /\ inv = Put(Put(EmptyFn, <<1, 1>>, MaxQty), <<1, 2>>, 1)
    /\ ledger = {Movement(1, 1, 1, MaxQty, "STOCK_IN", NullRef),
                 Movement(2, 1, 2, 1, "STOCK_IN", NullRef)}
    /\ nextMovId = 3
    /\ InitPool

CommuteBodies ==
    {MoveBody(1, p, 1, "SALE", 0, NullRef) : p \in ProductIds}
    \cup {MoveBody(1, p, MaxQty, "REMOVAL", 0, NullRef) : p \in ProductIds}
    \cup {MoveBody(2, p, 1, "STOCK_IN", 0, NullRef) : p \in ProductIds}
    \cup {MoveBody(2, p, 1, "SALE", 0, NullRef) : p \in ProductIds}
    \cup {MoveBody(1, p, 1, "TRANSFER", 2, NullRef) : p \in ProductIds}
    \cup {MoveBody(1, 1, 1, "TRANSFER", 2, "REF")}

\* the aggregate rows a call reads or writes
TouchedPairs(b) ==
    {<<b.storeId, b.productId>>}
    \cup (IF b.type = "TRANSFER" THEN {<<b.destinationStoreId, b.productId>>} ELSE {})

CommuteFirst == \E b \in CommuteBodies : createStockMovement(1, b)
CommuteSecond ==
    \E b \in CommuteBodies :
        /\ TouchedPairs(b) \cap TouchedPairs(req[1].body) = {}
        /\ createStockMovement(2, b)
NextCommute == CommuteFirst \/ CommuteSecond \/ Step
SpecCommute == InitCommute /\ [][NextCommute]_vars

\* Two overlapping createStockMovement calls whose first movement creates
\* the aggregate row of store 2 (InitAdmin: only store 1 holds a row).
FreshBodies ==
    {MoveBody(2, 1, 1, "STOCK_IN", 0, NullRef), MoveBody(2, 1, 1, "SALE", 0, NullRef),
     MoveBody(1, 1, 1, "TRANSFER", 2, NullRef)}
NextFresh == (\E r \in {1, 2}, b \in FreshBodies : createStockMovement(r, b)) \/ Step
SpecFresh == InitAdmin /\ [][NextFresh]_vars

\* createStockMovement calls one after the other covering every way the
\* handler answers: accepted, invalid, unknown id, insufficient stock, and
\* a query that fails in the storage layer.
KindBodies == InputBodies \cup {MoveBody(1, 1, 1, "SALE", 0, NullRef)}
NextKinds ==
    \/ \E r \in Reqs, b \in KindBodies : Quiet /\ createStockMovement(r, b)
    \/ Step
    \/ Fail
SpecKinds == Init /\ [][NextKinds]_vars

\* getStockMovements calls and stock movements one after the other while
\* the clock runs.  The first two slots serve either, the others reads only.
ListQuery(s, p, t, from, to, page, limit) ==
    [storeId |-> s, productId |-> p, type |-> t, startDate |-> from, endDate |-> to,
     page |-> page, limit |-> limit]
ListQueries ==
    {NoQuery,
     ListQuery(0, 0, "", 0, 0, 0, 1), ListQuery(0, 0, "", 0, 0, 2, 1),
     ListQuery(0, 0, "", 0, 0, 1, 2), ListQuery(0, 0, "", 0, 0, 2, 2),
     ListQuery(2, 0, "", 0, 0, 0, 0), ListQuery(0, 0, "STOCK_IN", 0, 0, 0, 1),
     ListQuery(0, 0, "TRANSFER", 0, 0, 0, 0), ListQuery(0, 0, "", MaxTime, 0, 0, 0),
     ListQuery(0, 0, "", 0, 1, 0, 0), ListQuery(1, 1, "", 1, MaxTime, 1, 2)}
ListMoveBodies ==
    {MoveBody(1, 1, 1, "TRANSFER", 2, NullRef), MoveBody(1, 1, 1, "SALE", 0, NullRef)}
NextList ==
    \/ \E r \in {1, 2}, b \in ListMoveBodies : Quiet /\ createStockMovement(r, b)
    \/ \E r \in Reqs, y \in ListQueries : Quiet /\ getStockMovements(r, y)
    \/ Step
    \/ \E r \in Reqs : CompleteRows(r)
    \/ Tick
SpecList == InitAdmin /\ [][NextList]_vars

\* An updateInventory call overlapping with a createStockMovement call or
\* with another updateInventory call on the row of store 1, product 1.
RaceAdjustBodies == {UpdBody(1, 1, "num", 0), UpdBody(1, 1, "num", MaxQty + 1)}
RaceMoveBodies ==
    {MoveBody(1, 1, 1, "SALE", 0, NullRef), MoveBody(1, 1, 1, "STOCK_IN", 0, NullRef)}
NextRace ==
    \/ \E r \in {1, 2}, b \in RaceAdjustBodies : updateInventory(r, b)
    \/ \E r \in {1, 2}, b \in RaceMoveBodies : createStockMovement(r, b)
    \/ Step
SpecRace == InitStocked /\ [][NextRace]_vars

\* Legacy createMovement calls one after the other on a product with no
\* stock (product 2 does not exist).
LegacyBody(p, n, t) == [NoBody EXCEPT !.productId = p, !.quantity = n, !.type = t]
LegacyBodies ==
    {LegacyBody(1, n, t) : n \in {0 - 1, 1, MaxQty}, t \in legacyTypes}
    \cup {LegacyBody(1, 0, "STOCK_IN"), LegacyBody(1, 1, "TRANSFER"), LegacyBody(2, 1, "STOCK_IN")}
NextLegacy ==
    \/ \E r \in Reqs, b \in LegacyBodies : Quiet /\ createMovement(r, b)
    \/ \E r \in Reqs : LegacyComplete(r)
SpecLegacy == Init /\ [][NextLegacy]_vars

\* ------------------------------------------------------------- properties
Done(r) == req[r].st = "done"
Succeeded(r) == Done(r) /\ req[r].resp.status = 201
\* r is the most recent request and has been answered
Latest(r) == Done(r) /\ \A o \in Reqs : o > r => req[o].st = "new"

\* signed quantity of a ledger record: STOCK_IN (which is also how the
\* incoming leg of a transfer is recorded) counts up, everything else down
signed_quantity(m) == IF m.type = "STOCK_IN" THEN m.quantity ELSE 0 - m.quantity

RECURSIVE SumSigned(_)
SumSigned(S) ==
    IF S = {} THEN 0
    ELSE LET m == CHOOSE x \in S : TRUE IN signed_quantity(m) + SumSigned(S \ {m})

LedgerSum(L, p) == SumSigned({m \in L : <<m.store_id, m.product_id>> = p})
AggQty(I, p) == IF p \in DOMAIN I THEN I[p] ELSE 0

\* C1: after any sequence of completed createStockMovement calls run one at a
\* time from an empty ledger, every (store, product) aggregate quantity equals
\* the signed sum of that pair's ledger records.
C1_AggregateEqualsLedgerSum ==
    Quiet => \A p \in Pairs : AggQty(inv, p) = LedgerSum(ledger, p)

\* C1 witness: a transfer and a sale have both completed successfully.
C1_Witness ==
    /\ Quiet
    /\ \E r \in Reqs : Succeeded(r) /\ req[r].body.type = "TRANSFER"
                       /\ req[r].body.storeId # req[r].body.destinationStoreId
    /\ \E r \in Reqs : Succeeded(r) /\ req[r].body.type = "SALE"
    /\ Cardinality(ledger) >= 4

NoOpenTransaction == \A c \in Conns : tx[c] = EmptyTx
SrcQtyBefore(r) == AggQty(req[r].pre.inv, SrcPair(req[r]))

\* a request the interface accepts: fields present, ids known
WellFormed(b) ==
    /\ b.storeId \in stores /\ b.productId \in products
    /\ b.quantity > 0 /\ b.type \in validTypes
    /\ (b.type = "TRANSFER" => b.destinationStoreId \in stores)

\* C8: an outgoing movement asking for more than the pair holds fails with
\* 'Insufficient stock', reports available and requested, and leaves the
\* ledger and the aggregate rows as they were (no row is created either).
C8_InsufficientStockNoWrites ==
    \A r \in Reqs :
        (Done(r) /\ req[r].op = "move" /\ WellFormed(req[r].body)
            /\ req[r].body.type \in outgoingTypes
            /\ req[r].body.quantity > SrcQtyBefore(r))
        => /\ req[r].resp.status = 400
           /\ req[r].resp.error = "Insufficient stock"
           /\ req[r].resp.available = SrcQtyBefore(r)
           /\ req[r].resp.requested = req[r].body.quantity
           /\ (Latest(r) => Snapshot = req[r].pre /\ NoOpenTransaction)

\* C8 witness: a sale was refused on a pair without a row, and later another
\* one on the same pair once it held stock.
C8_Witness ==
    /\ \E r \in Reqs : /\ Done(r) /\ req[r].resp.error = "Insufficient stock"
                       /\ SrcPair(req[r]) \notin DOMAIN req[r].pre.inv
    /\ \E r \in Reqs : /\ Latest(r) /\ req[r].resp.error = "Insufficient stock"
                       /\ req[r].resp.available >= 1

\* what the interface calls a validation failure
InvalidRequest(b) ==
    \/ b.storeId = 0 \/ b.productId = 0 \/ b.quantity = 0 \/ b.type = ""
    \/ b.quantity <= 0
    \/ b.type \notin validTypes
    \/ (b.type = "TRANSFER" /\ b.destinationStoreId = 0)

\* C9: a request with a missing field, a non-positive quantity, an unknown
\* type, or a TRANSFER without destination is answered 400 without issuing
\* any query, and ledger and aggregates are unchanged.
C9_ValidationBeforeTransaction ==
    \A r \in Reqs :
        (req[r].op = "move" /\ InvalidRequest(req[r].body))
        => /\ Done(r)
           /\ req[r].resp.status = 400
           /\ (Latest(r) => Snapshot = req[r].pre /\ NoOpenTransaction)

\* C9 witness: a negative quantity and a TRANSFER without destination were
\* both rejected on a shop that already holds stock.
C9_Witness ==
    /\ ledger # {}
    /\ \E r \in Reqs : Latest(r) /\ req[r].body.quantity < 0 /\ req[r].resp.status = 400
    /\ \E r \in Reqs : /\ Done(r) /\ req[r].body.type = "TRANSFER"
                       /\ req[r].body.destinationStoreId = 0 /\ req[r].resp.status = 400
                       /\ req[r].pre.ledger # {}

\* C10 (as claimed): a TRANSFER whose destination is its own source store is
\* rejected and writes nothing.
C10_SelfTransferRejected ==
    \A r \in Reqs :
        (Done(r) /\ req[r].op = "move" /\ req[r].body.type = "TRANSFER"
            /\ req[r].body.destinationStoreId = req[r].body.storeId)
        => /\ req[r].resp.status # 201
           /\ (Latest(r) => Snapshot = req[r].pre)

\* ---------------------------------------------- properties of overlapping calls
IsMove(r) == req[r].op = "move"
\* the two calls were in progress at the same time
Concurrent(r1, r2) == r1 \in req[r2].with \/ r2 \in req[r1].with

\* C2 (as claimed): every committed store_inventory row has quantity >= 0.
C2_QuantityNeverNegative == \A p \in DOMAIN inv : inv[p] >= 0

\* C3 (as claimed): of two concurrent outgoing movements on one pair that
\* each fit the quantity both saw at arrival but together exceed it, exactly
\* one succeeds and the other fails with 'Insufficient stock'.
C3_OneOfTwoOutgoingSucceeds ==
    \A r1, r2 \in Reqs :
        (/\ r1 < r2 /\ Done(r1) /\ Done(r2) /\ IsMove(r1) /\ IsMove(r2)
         /\ Concurrent(r1, r2)
         /\ WellFormed(req[r1].body) /\ WellFormed(req[r2].body)
         /\ req[r1].body.type \in outgoingTypes /\ req[r2].body.type \in outgoingTypes
         /\ SrcPair(req[r1]) = SrcPair(req[r2])
         /\ req[r1].pre = req[r2].pre
         /\ req[r1].body.quantity <= SrcQtyBefore(r1)
         /\ req[r2].body.quantity <= SrcQtyBefore(r1)
         /\ req[r1].body.quantity + req[r2].body.quantity > SrcQtyBefore(r1))
        => \/ Succeeded(r1) /\ req[r2].resp.error = "Insufficient stock"
           \/ Succeeded(r2) /\ req[r1].resp.error = "Insufficient stock"

\* One createStockMovement call run in isolation on aggregates I.
SerialApply(I, b) ==
    LET src == <<b.storeId, b.productId>>
        dst == <<b.destinationStoreId, b.productId>>
        cur == AggQty(I, src) IN
    IF ~WellFormed(b) \/ (b.type \in outgoingTypes /\ cur < b.quantity)
    THEN [inv |-> I, ok |-> FALSE]
    ELSE LET I1 == Put(I, src, newSourceQuantity(b.type, cur, b.quantity)) IN
         [inv |-> IF b.type = "TRANSFER" THEN Put(I1, dst, AggQty(I1, dst) + b.quantity) ELSE I1,
          ok |-> TRUE]

RECURSIVE SerialRun(_, _, _)
\* aggregates and outcomes after the calls of order[k..] run one by one
SerialRun(I, order, k) ==
    IF k > Len(order) THEN [inv |-> I, ok |-> {}]
    ELSE LET a == SerialApply(I, req[order[k]].body)
             rest == SerialRun(a.inv, order, k + 1) IN
         [inv |-> rest.inv, ok |-> rest.ok \cup (IF a.ok THEN {order[k]} ELSE {})]

Orders(S) == {o \in [1..Cardinality(S) -> S] : \A i, j \in DOMAIN o : i # j => o[i] # o[j]}

\* C4 (as claimed): once overlapping createStockMovement calls have all
\* answered, the aggregates and the set of successful calls are those of some
\* serial order of the same calls.
C4_Linearizable ==
    (Quiet /\ \A r \in Workers : Done(r) /\ IsMove(r))
    => \E o \in Orders(Workers) :
          LET s == SerialRun(req[1].pre.inv, o, 1) IN
          /\ \A p \in Pairs : AggQty(inv, p) = AggQty(s.inv, p)
          /\ \A r \in Workers : Succeeded(r) <=> r \in s.ok

InLedger(id) == id # 0 /\ \E m \in ledger : m.id = id

\* C5 (as claimed): in the committed tables a TRANSFER shows either both of
\* its ledger records or neither.
C5_TransferLegsTogether ==
    \A r \in Reqs :
        (IsMove(r) /\ req[r].body.type = "TRANSFER")
        => (InLedger(req[r].movId) <=> InLedger(req[r].destMovId))

\* C6 (as claimed): once a createStockMovement call has answered with a
\* storage error, none of its ledger records is in the ledger, and if no
\* other call ran, ledger and aggregates are exactly as before the call.
C6_FailedCallLeavesNothing ==
    \A r \in Reqs :
        (Done(r) /\ IsMove(r) /\ req[r].resp.status = 500)
        => /\ ~InLedger(req[r].movId)
           /\ ~InLedger(req[r].destMovId)
           /\ ((\A o \in Reqs \ {r} : req[o].st = "new") => Snapshot = req[r].pre)

\* C7 (as claimed): no interleaving leaves two transfers blocked on each other.
C7_NeverBlockedOnEachOther == \A c \in Conns : ~InDeadlock(c)

\* ------------------------------------------------ references that do not exist
\* a request with valid fields that names a missing product or store
NotFoundRequest(b) ==
    /\ ~InvalidRequest(b)
    /\ \/ b.productId \notin products
       \/ b.storeId \notin stores
       \/ (b.type = "TRANSFER" /\ b.destinationStoreId \notin stores)

\* C11: a createStockMovement naming a product, source store or (TRANSFER)
\* destination store that does not exist is answered 404, and ledger and
\* aggregate rows are as before the call.
C11_NotFoundNoWrites ==
    \A r \in Reqs :
        (Done(r) /\ IsMove(r) /\ NotFoundRequest(req[r].body))
        => /\ req[r].resp.status = 404
           /\ req[r].resp.error \in {"Product not found", "Store not found",
                                     "Destination store not found"}
           /\ (Latest(r) => Snapshot = req[r].pre /\ NoOpenTransaction)

\* C11 witness: on a shop that holds stock, a request for an unknown product
\* and a transfer to an unknown store were both answered 404.
C11_Witness ==
    /\ \E r \in Reqs : /\ Latest(r) /\ req[r].resp.error = "Destination store not found"
                       /\ req[r].pre.ledger # {}
    /\ \E r \in Reqs : Done(r) /\ req[r].resp.error = "Product not found"

\* --------------------------------------------------------- manual adjustment
AdjustedRecords(r) == ledger \ req[r].pre.ledger

\* C12: an updateInventory run on its own that sets a row from old to a
\* different new quantity appends exactly one ledger record for the pair,
\* STOCK_IN when new > old and REMOVAL when new < old, of quantity |new - old|;
\* so the pair's aggregate still equals its ledger sum if it did before.
C12_AdjustmentRecorded ==
    \A r \in Reqs :
        LET p == SrcPair(req[r])
            new == req[r].body.quantity IN
        (/\ Latest(r) /\ req[r].op = "upd" /\ req[r].body.qkind = "num"
         /\ p \in DOMAIN req[r].pre.inv /\ new # req[r].pre.inv[p])
        => LET old == req[r].pre.inv[p] IN
           /\ req[r].resp.status = 200
           /\ inv = Put(req[r].pre.inv, p, new)
           /\ req[r].pre.ledger \subseteq ledger
           /\ Cardinality(AdjustedRecords(r)) = 1
           /\ \A m \in AdjustedRecords(r) :
                 /\ <<m.store_id, m.product_id>> = p
                 /\ m.type = (IF new > old THEN "STOCK_IN" ELSE "REMOVAL")
                 /\ m.quantity = Abs(new - old)
           /\ (old = LedgerSum(req[r].pre.ledger, p) => inv[p] = LedgerSum(ledger, p))

\* C12 witness: a row was lowered and then raised again, ledger sum in step
C12_Witness ==
    /\ \E r \in Reqs : /\ Latest(r) /\ req[r].op = "upd" /\ req[r].resp.status = 200
                       /\ SrcPair(req[r]) \in DOMAIN req[r].pre.inv
                       /\ req[r].body.quantity > req[r].pre.inv[SrcPair(req[r])]
                       /\ inv[SrcPair(req[r])] = LedgerSum(ledger, SrcPair(req[r]))
    /\ \E r \in Reqs : /\ Done(r) /\ req[r].op = "upd" /\ req[r].resp.status = 200
                       /\ SrcPair(req[r]) \in DOMAIN req[r].pre.inv
                       /\ req[r].body.qkind = "num"
                       /\ req[r].body.quantity < req[r].pre.inv[SrcPair(req[r])]

\* ------------------------------------------------------ ledger and catalogue
\* C13: the ledger is append-only: every step of every operation keeps every
\* stock_movement record that was present before it, unchanged.
C13_LedgerAppendOnly == [][ledger \subseteq ledger']_vars

\* C13 witness: an adjustment and a deletion both ran to their answer on a
\* ledger that already held records, which are all still there.
C13_Witness ==
    /\ \E r \in Reqs : /\ Done(r) /\ req[r].op = "upd" /\ req[r].resp.status = 200
                       /\ req[r].pre.ledger # {} /\ req[r].pre.ledger \subseteq ledger
    /\ \E r \in Reqs : /\ Done(r) /\ req[r].op \in {"delStore", "delProduct"}
                       /\ req[r].resp.status # 400
                       /\ req[r].pre.ledger # {} /\ req[r].pre.ledger \subseteq ledger

\* C14: every ledger record and every aggregate row refers to a store and a
\* product that exist; deleteStore / deleteProduct never remove a referenced one.
C14_ReferencesExist ==
    /\ \A m \in ledger : m.store_id \in stores /\ m.product_id \in products
    /\ \A p \in DOMAIN inv : p[1] \in stores /\ p[2] \in products

\* C14 witness: a store without records was deleted, and the deletion of a
\* store with records was refused, while the ledger holds records.
C14_Witness ==
    /\ ledger # {}
    /\ stores # Stores
    /\ \E r \in Reqs : /\ Done(r) /\ req[r].op = "delStore" /\ req[r].resp.status \in {409, 500}
                       /\ req[r].body.storeId \in stores
                       /\ \E m \in ledger : m.store_id = req[r].body.storeId

\* ------------------------------------------------- effect of a successful call
\* the records the latest call added, and those among them of one pair
NewRecords(r) == ledger \ req[r].pre.ledger
RecordsOf(L, p) == {m \in L : <<m.store_id, m.product_id>> = p}
\* every aggregate row outside S is as it was before call r
OthersUntouched(r, S) ==
    /\ DOMAIN inv \ S = DOMAIN req[r].pre.inv \ S
    /\ \A k \in DOMAIN inv \ S : inv[k] = req[r].pre.inv[k]

\* C15: a STOCK_IN of n on a pair without an aggregate row succeeds, leaves
\* the row at quantity n, and the pair has exactly one ledger record, of type
\* STOCK_IN and quantity n.
C15_FirstMovementCreatesRow ==
    \A r \in Reqs :
        LET p == SrcPair(req[r])
            n == req[r].body.quantity IN
        (/\ Latest(r) /\ IsMove(r) /\ WellFormed(req[r].body)
         /\ req[r].body.type = "STOCK_IN" /\ p \notin DOMAIN req[r].pre.inv)
        => /\ Succeeded(r)
           /\ p \in DOMAIN inv /\ inv[p] = n
           /\ Cardinality(RecordsOf(ledger, p)) = 1
           /\ \A m \in RecordsOf(ledger, p) : m.type = "STOCK_IN" /\ m.quantity = n

\* C15 witness: a first STOCK_IN of MaxQty, and later a first STOCK_IN for
\* another pair when the tables are no longer empty.
C15_Witness ==
    /\ \E r \in Reqs : /\ Succeeded(r) /\ req[r].body.type = "STOCK_IN"
                       /\ req[r].pre.inv = EmptyFn /\ req[r].body.quantity = MaxQty
    /\ \E r \in Reqs : /\ Latest(r) /\ Succeeded(r) /\ req[r].body.type = "STOCK_IN"
                       /\ req[r].pre.inv # EmptyFn
                       /\ SrcPair(req[r]) \notin DOMAIN req[r].pre.inv

\* C16: a successful STOCK_IN / SALE / REMOVAL of n on a pair holding q adds
\* exactly one ledger record (requested type, quantity n), sets the aggregate
\* to q + n (STOCK_IN) or q - n (SALE, REMOVAL), and returns as new_quantity
\* the quantity now stored.
C16_NonTransferEffect ==
    \A r \in Reqs :
        LET p == SrcPair(req[r])
            n == req[r].body.quantity
            q == AggQty(req[r].pre.inv, p) IN
        (Latest(r) /\ IsMove(r) /\ Succeeded(r) /\ req[r].body.type # "TRANSFER")
        => /\ req[r].pre.ledger \subseteq ledger
           /\ Cardinality(NewRecords(r)) = 1
           /\ \A m \in NewRecords(r) :
                 /\ <<m.store_id, m.product_id>> = p
                 /\ m.type = req[r].body.type /\ m.quantity = n
           /\ p \in DOMAIN inv
           /\ inv[p] = (IF req[r].body.type = "STOCK_IN" THEN q + n ELSE q - n)
           /\ req[r].resp.new_quantity = inv[p]
           /\ OthersUntouched(r, {p})

\* C16 witness: a SALE of MaxQty succeeded on a pair that held MaxQty
C16_Witness ==
    \E r \in Reqs : /\ Latest(r) /\ Succeeded(r) /\ req[r].body.type = "SALE"
                     /\ req[r].body.quantity = MaxQty
                     /\ SrcQtyBefore(r) = MaxQty /\ inv[SrcPair(req[r])] = 0

\* C17: a successful TRANSFER of n from a store holding q >= n to another
\* store holding d (or without a row) leaves the source at q - n, the
\* destination at d + n, and adds exactly two ledger records, one per store,
\* each of quantity n.
C17_TransferEffect ==
    \A r \in Reqs :
        LET src == <<req[r].body.storeId, req[r].body.productId>>
            dst == <<req[r].body.destinationStoreId, req[r].body.productId>>
            n == req[r].body.quantity IN
        (/\ Latest(r) /\ IsMove(r) /\ Succeeded(r) /\ req[r].body.type = "TRANSFER"
         /\ src # dst)
        => /\ src \in DOMAIN req[r].pre.inv /\ req[r].pre.inv[src] >= n
           /\ src \in DOMAIN inv /\ inv[src] = req[r].pre.inv[src] - n
           /\ dst \in DOMAIN inv /\ inv[dst] = AggQty(req[r].pre.inv, dst) + n
           /\ OthersUntouched(r, {src, dst})
           /\ req[r].pre.ledger \subseteq ledger
           /\ Cardinality(NewRecords(r)) = 2
           /\ Cardinality(RecordsOf(NewRecords(r), src)) = 1
           /\ Cardinality(RecordsOf(NewRecords(r), dst)) = 1
           /\ \A m \in NewRecords(r) : m.quantity = n

\* C17 witness: one transfer created the destination row, a later one found it
C17_Witness ==
    /\ \E r \in Reqs : /\ Succeeded(r) /\ req[r].body.type = "TRANSFER"
                       /\ req[r].body.storeId = 1 /\ req[r].body.destinationStoreId = 2
                       /\ <<2, 1>> \notin DOMAIN req[r].pre.inv
    /\ \E r \in Reqs : /\ Latest(r) /\ Succeeded(r) /\ req[r].body.type = "TRANSFER"
                       /\ req[r].body.storeId = 1 /\ req[r].body.destinationStoreId = 2
                       /\ <<2, 1>> \in DOMAIN req[r].pre.inv

\* C18 (as claimed): the two ledger records of one TRANSFER carry the same
\* reference id, whether the caller supplied one or not.
C18_TransferLegsShareReference ==
    \A r \in Reqs :
        (/\ Latest(r) /\ IsMove(r) /\ Succeeded(r) /\ req[r].body.type = "TRANSFER"
         /\ req[r].body.storeId # req[r].body.destinationStoreId)
        => \A m1, m2 \in NewRecords(r) : m1.reference_id = m2.reference_id

ledgerTypes == {"STOCK_IN", "SALE", "REMOVAL", "TRANSFER_OUT", "TRANSFER_IN"}

\* C19 (as claimed): every ledger record has one of the five ledger types,
\* and a TRANSFER is recorded as TRANSFER_OUT at the source store and
\* TRANSFER_IN at the destination store.
C19_TransferLegTypes ==
    /\ \A m \in ledger : m.type \in ledgerTypes
    /\ \A r \in Reqs :
          (Latest(r) /\ IsMove(r) /\ Succeeded(r) /\ req[r].body.type = "TRANSFER")
          => \A m \in NewRecords(r) :
                m.type = (IF m.id = req[r].movId THEN "TRANSFER_OUT" ELSE "TRANSFER_IN")

\* --------------------------------------------------- calls on disjoint pairs
\* what a call with body b answers when it runs alone on aggregates I
AloneResp(I, b) ==
    LET cur == AggQty(I, <<b.storeId, b.productId>>) IN
    IF b.type \in outgoingTypes /\ cur < b.quantity
    THEN InsufficientStock(cur, b.quantity)
    ELSE [Resp(201, "") EXCEPT !.new_quantity = newSourceQuantity(b.type, cur, b.quantity)]

\* a ledger record without its id; a reference id the engine generated
\* (the string of a record id) is written "generated"
Content(m) ==
    [store_id |-> m.store_id, product_id |-> m.product_id, quantity |-> m.quantity,
     type |-> m.type,
     reference_id |-> IF m.reference_id \in {NullRef, "REF"} THEN m.reference_id
                      ELSE "generated"]

\* the record contents a call with body b adds when it runs alone on I
AloneRecords(I, b) ==
    IF AloneResp(I, b).status # 201 THEN {}
    ELSE {[store_id |-> b.storeId, product_id |-> b.productId, quantity |-> b.quantity,
           type |-> b.type, reference_id |-> b.referenceId]}
         \cup (IF b.type # "TRANSFER" THEN {}
               ELSE {[store_id |-> b.destinationStoreId, product_id |-> b.productId,
                      quantity |-> b.quantity, type |-> "STOCK_IN",
                      reference_id |-> IF b.referenceId # NullRef THEN b.referenceId
                                       ELSE "generated"]})

\* C20: two createStockMovement calls on disjoint pairs commute: run one
\* after the other or interleaved, each call answers what it answers alone,
\* and the final aggregates and ledger contents are those of both serial
\* orders.
C20_DisjointCallsCommute ==
    (Done(1) /\ Done(2))
    => LET I0 == req[1].pre.inv
           L0 == req[1].pre.ledger IN
       /\ \A r \in {1, 2} : req[r].resp = AloneResp(I0, req[r].body)
       /\ \A o \in Orders({1, 2}) : inv = SerialRun(I0, o, 1).inv
       /\ L0 \subseteq ledger
       /\ {Content(m) : m \in ledger \ L0}
             = AloneRecords(I0, req[1].body) \cup AloneRecords(I0, req[2].body)
       /\ Cardinality(ledger \ L0)
             = Cardinality(AloneRecords(I0, req[1].body))
               + Cardinality(AloneRecords(I0, req[2].body))

\* C20 witness: a transfer and a refused sale overlapped, and both answered
C20_Witness ==
    /\ Done(1) /\ Done(2) /\ Concurrent(1, 2)
    /\ \E r \in {1, 2} : Succeeded(r) /\ req[r].body.type = "TRANSFER"
    /\ \E r \in {1, 2} : req[r].resp.error = "Insufficient stock"

\* C21: in every reachable state the aggregate table holds at most one row
\* per (store, product) pair, also when two first movements for the same
\* fresh pair overlap and both find no row: rows counts the committed rows
\* of each pair, and a pair has a quantity exactly when it has one row.
C21_OneRowPerPair ==
    \A p \in DOMAIN rows : rows[p] <= 1 /\ (rows[p] = 1 <=> p \in DOMAIN inv)

\* both calls overlapped on the fresh pair (2, 1) and have been answered:
\* one created the row, the other's INSERT was refused
C21_Witness ==
    /\ Done(1) /\ Done(2)
    /\ 1 \in req[2].with
    /\ <<2, 1>> \notin DOMAIN req[1].pre.inv /\ <<2, 1>> \notin DOMAIN req[2].pre.inv
    /\ {req[1].resp.status, req[2].resp.status} = {201, 500}
    /\ rows[<<2, 1>>] = 1

\* C22: every stock_movement record ever written, by createStockMovement or
\* by updateInventory (whatever the request body, a null quantity or one
\* equal to the current quantity included), has a strictly positive quantity.
C22_RecordsPositive == \A m \in ledger : m.quantity > 0

\* the reason a createStockMovement call is refused, from its body, the
\* tables it found and whether one of its queries failed in storage
Kind(r) ==
    LET b == req[r].body IN
    IF req[r].hit THEN "storage"
    ELSE IF InvalidRequest(b) THEN "validation"
    ELSE IF b.productId \notin products \/ b.storeId \notin stores
            \/ (b.type = "TRANSFER" /\ b.destinationStoreId \notin stores) THEN "notfound"
    ELSE IF b.type \in outgoingTypes /\ AggQty(req[r].pre.inv, SrcPair(req[r])) < b.quantity
         THEN "insufficient"
    ELSE "ok"

Answer(r) == <<req[r].resp.status, req[r].resp.error>>

\* C23: the error kinds of createStockMovement are answered distinguishably:
\* two refused calls of different kinds never get the same (status, error),
\* an input error is a 400 or a 404, insufficient stock is a 400 with its
\* own error text and the figures, and a storage failure is a 500.
C23_ErrorKindsDistinct ==
    /\ \A r1, r2 \in Reqs :
          (Done(r1) /\ Done(r2) /\ Kind(r1) # "ok" /\ Kind(r2) # "ok" /\ Kind(r1) # Kind(r2))
              => Answer(r1) # Answer(r2)
    /\ \A r \in Reqs : Done(r) =>
          /\ Kind(r) = "validation" => req[r].resp.status = 400
          /\ Kind(r) = "notfound" => req[r].resp.status = 404
          /\ Kind(r) = "insufficient" => Answer(r) = <<400, "Insufficient stock">>
          /\ Kind(r) = "storage" => req[r].resp.status = 500
          /\ Kind(r) = "ok" => req[r].resp.status = 201

\* one behaviour answered an invalid request, an insufficient-stock request
\* and a request hit by a storage failure
C23_Witness ==
    \E r1, r2, r3 \in Reqs :
        /\ Done(r1) /\ Done(r2) /\ Done(r3)
        /\ Kind(r1) = "validation" /\ Kind(r2) = "insufficient" /\ Kind(r3) = "storage"

IsList(r) == Done(r) /\ req[r].op = "list" /\ req[r].resp.status = 200

\* C24: two getStockMovements calls with the same filters and pagination
\* that saw the same ledger (no write between them) return the same records
\* in the same order, also when records share a creation timestamp.
C24_RepeatableRead ==
    \A r1, r2 \in Reqs :
        (IsList(r1) /\ IsList(r2) /\ req[r1].query = req[r2].query
            /\ req[r1].seen = req[r2].seen)
            => req[r1].resp.movements = req[r2].resp.movements

\* the records of ledger L that a query asks for
Wanted(L, y) ==
    {m \in L : /\ (y.storeId = 0 \/ m.store_id = y.storeId)
               /\ (y.productId = 0 \/ m.product_id = y.productId)
               /\ (y.type = "" \/ m.type = y.type)
               /\ (y.startDate = 0 \/ y.startDate <= created[m.id])
               /\ (y.endDate = 0 \/ created[m.id] <= y.endDate)}
\* records to skip and to return at most (page 1 and 20 records by default)
WantedSkip(y) ==
    ((IF y.page = 0 THEN 1 ELSE y.page) - 1) * (IF y.limit = 0 THEN 20 ELSE y.limit)
WantedSize(y) == IF y.limit = 0 THEN 20 ELSE y.limit
Range(f) == {f[i] : i \in DOMAIN f}

\* f is the slice [skip + 1 .. skip + size] of some newest-first arrangement
\* of the records M
IsPageOf(f, M, skip, size) ==
    /\ Range(f) \subseteq M
    /\ \A i, j \in DOMAIN f : i # j => f[i] # f[j]
    /\ \A i \in 1..(Len(f) - 1) : created[f[i].id] >= created[f[i + 1].id]
    /\ IF Cardinality(M) <= skip THEN f = <<>>
       ELSE /\ Len(f) = (IF Cardinality(M) - skip < size THEN Cardinality(M) - skip ELSE size)
            /\ \E A \in SUBSET (M \ Range(f)) :
                  /\ Cardinality(A) = skip
                  /\ \A a \in A : created[a.id] >= created[f[1].id]
                  /\ \A m \in M \ (A \cup Range(f)) : created[m.id] <= created[f[Len(f)].id]

\* C25: a getStockMovements call returns exactly the ledger records that
\* satisfy every filter supplied (storeId, productId, type, startDate <=
\* created_at <= endDate), newest first, and the page it returns is the
\* slice (page, limit) of that sequence.
C25_ListIsFilteredSortedPage ==
    \A r \in Reqs :
        IsList(r) =>
            IsPageOf(req[r].resp.movements, Wanted(req[r].seen, req[r].query),
                     WantedSkip(req[r].query), WantedSize(req[r].query))

\* a second page of one record out of a ledger of three, and a filtered
\* call by type, have been answered with records
C25_Witness ==
    \E r1, r2 \in Reqs :
        /\ IsList(r1) /\ req[r1].query.page = 2 /\ req[r1].query.limit = 1
        /\ Cardinality(req[r1].seen) >= 3 /\ Len(req[r1].resp.movements) = 1
        /\ IsList(r2) /\ req[r2].query.type = "STOCK_IN"
        /\ Len(req[r2].resp.movements) = 1
        /\ Cardinality(Wanted(req[r2].seen, req[r2].query)) < Cardinality(req[r2].seen)

RECURSIVE SumQty(_, _)
SumQty(I, S) ==
    IF S = {} THEN 0
    ELSE LET k == CHOOSE x \in S : TRUE IN I[k] + SumQty(I, S \ {k})
\* total quantity of product p over all stores
ProductTotal(I, p) == SumQty(I, {k \in DOMAIN I : k[2] = p})

\* C26: once a createStockMovement call has succeeded, the product's total
\* over all stores is unchanged for a TRANSFER, higher by the quantity for a
\* STOCK_IN and lower by the quantity for a SALE or REMOVAL.
C26_ProductTotalEffect ==
    \A r \in Reqs :
        (IsMove(r) /\ Latest(r) /\ Succeeded(r)) =>
            LET b == req[r].body
                before == ProductTotal(req[r].pre.inv, b.productId)
                after == ProductTotal(inv, b.productId) IN
            CASE b.type = "TRANSFER" -> after = before
              [] b.type = "STOCK_IN" -> after = before + b.quantity
              [] OTHER -> after = before - b.quantity

\* a transfer between two stores has succeeded and moved stock
C26_Witness ==
    \E r \in Reqs :
        /\ IsMove(r) /\ Latest(r) /\ Succeeded(r)
        /\ req[r].body.type = "TRANSFER"
        /\ req[r].body.storeId # req[r].body.destinationStoreId
        /\ AggQty(inv, DstPair(req[r])) = AggQty(req[r].pre.inv, DstPair(req[r])) + req[r].body.quantity
        /\ ProductTotal(inv, 1) > 0

\* C27: when an updateInventory call overlapped with a createStockMovement
\* call or another updateInventory call on the same aggregate row and both
\* have been answered, the row's quantity equals the signed sum of the
\* ledger records of its pair.
C27_AdjustmentRaceKeepsSum ==
    (/\ Done(1) /\ Done(2) /\ Concurrent(1, 2)
     /\ \E r \in {1, 2} : req[r].op = "upd" /\ req[r].resp.status = 200
     /\ SrcPair(req[1]) = SrcPair(req[2]))
        => AggQty(inv, SrcPair(req[1])) = LedgerSum(ledger, SrcPair(req[1]))

\* the ledger records a successful call wrote (by the ids it was given)
OwnRecords(r) ==
    {req[r].movId} \cup (IF req[r].body.type = "TRANSFER" THEN {req[r].destMovId} ELSE {})

\* C28: a request that fails and issues ROLLBACK never discards writes of a
\* different, overlapping request that goes on to report success: once all
\* requests are answered, every createStockMovement call answered 201 has
\* each of its ledger records in the ledger.
C28_RollbackSparesOthers ==
    Quiet =>
        \A r \in Reqs :
            (IsMove(r) /\ Succeeded(r)) => \A i \in OwnRecords(r) : InLedger(i)

\* C29: an updateInventory call that supplies no quantity, or a quantity
\* equal to the row's current quantity, and is answered 200 has appended no
\* ledger record and left the row's quantity as it was.
C29_NoChangeNoRecord ==
    \A r \in Reqs :
        (/\ Latest(r) /\ req[r].op = "upd" /\ req[r].resp.status = 200
         /\ \/ req[r].body.qkind = "undefined"
            \/ /\ req[r].body.qkind = "num"
               /\ req[r].body.quantity = req[r].pre.inv[SrcPair(req[r])])
            => /\ ledger = req[r].pre.ledger
               /\ inv = req[r].pre.inv

\* both cases have been served: a call without quantity and a call whose
\* quantity equals the current one, after an earlier call changed the row
C29_Witness ==
    \E r1, r2, r3 \in Reqs :
        /\ r1 < r2 /\ r2 < r3 /\ Latest(r3)
        /\ req[r1].op = "upd" /\ req[r1].resp.status = 200
        /\ req[r1].body.qkind = "num"
        /\ req[r1].body.quantity # req[r1].pre.inv[SrcPair(req[r1])]
        /\ req[r2].op = "upd" /\ req[r2].resp.status = 200
        /\ req[r2].body.qkind = "num" /\ SrcPair(req[r2]) = SrcPair(req[r1])
        /\ req[r2].body.quantity = req[r1].body.quantity
        /\ req[r3].op = "upd" /\ req[r3].resp.status = 200
        /\ req[r3].body.qkind = "undefined" /\ SrcPair(req[r3]) = SrcPair(req[r1])

legacy_signed(m) == IF m.type = "STOCK_IN" THEN m.quantity ELSE 0 - m.quantity
RECURSIVE LegacySum(_)
LegacySum(S) ==
    IF S = {} THEN 0
    ELSE LET m == CHOOSE x \in S : TRUE IN legacy_signed(m) + LegacySum(S \ {m})
\* product.quantity follows the recorded movements (initial quantity 0)
LegacyQuantityIsSum ==
    \A p \in DOMAIN sqlite.product :
        sqlite.product[p] = LegacySum({m \in sqlite.stock_movement : m.product_id = p})

\* C30: after any sequence of legacy createMovement calls with accepted
\* bodies (negative quantities included), product.quantity is never
\* negative and equals its initial value plus the STOCK_IN quantities minus
\* the SALE and REMOVAL quantities recorded for the product.
C30_LegacyQuantity ==
    Quiet =>
        /\ \A p \in DOMAIN sqlite.product : sqlite.product[p] >= 0
        /\ LegacyQuantityIsSum

====
